---- MODULE Spec2Model ----
(***************************************************************************)
(* HashTable of main.cpp: a fixed-capacity table of string keys and int    *)
(* values.  insert places entries by FNV-1a home index and linear probing; *)
(* get walks the `next` chain of the home slot only.                       *)
(*                                                                         *)
(* A uint64_t is a sequence of 8 byte limbs, least significant first, so   *)
(* that the 64-bit wraparound arithmetic of fnv1a_hash is computed exactly.*)
(* A const char* key is the sequence of its character codes.  A            *)
(* shared_ptr<Entry> and a std::optional<int> are sequences of length at   *)
(* most one: <<>> is nullptr / std::nullopt.                               *)
(***************************************************************************)
EXTENDS Integers, Sequences, FiniteSets, TLC

\* ------------------------------------------------------------- bounds
MaxCap == 3
MaxKeys == 3
MaxVal == 2

\* Keys as character codes: "a", "b", and the literals of main: "puppy", "kitty",
\* "horsie", "wolfie".
KeyList ==
    << <<97>>,
       <<98>>,
       <<112, 117, 112, 112, 121>>,
       <<107, 105, 116, 116, 121>>,
       <<104, 111, 114, 115, 105, 101>>,
       <<119, 111, 108, 102, 105, 101>> >>

AllKeys == { KeyList[i] : i \in 1..Len(KeyList) }

\* The capacity main constructs its table with.
hashtable_capacity == 40

\* The capacities a table is constructed with.
Capacities == (1..MaxCap) \cup {hashtable_capacity}

Keys == { KeyList[i] : i \in 1..(IF MaxKeys < Len(KeyList) THEN MaxKeys ELSE Len(KeyList)) }
Vals == 1..MaxVal

VARIABLES
    m_cap,      \* const size_t m_cap
    m_table,    \* std::vector<std::shared_ptr<Entry>> m_table, indexed 0..m_cap-1
    pc,         \* "idle", or "probe" while insert is inside linear_probe's loop
    key,        \* insert's parameter key while the call is running
    val,        \* insert's parameter val while the call is running
    index,      \* insert's / linear_probe's local index
    probes,     \* history: slots linear_probe has stepped past in this call (saturates)
    last,       \* history: the last call that returned, its arguments, result, size() before it
    inserted,   \* history: key -> value of the last returned insert since construction / clear
    removed     \* history: remove was called for an inserted key since construction / clear

vars == <<m_cap, m_table, pc, key, val, index, probes, last, inserted, removed>>

\* ------------------------------------------------------------- uint64_t
nullptr == <<>>
nullopt == <<>>

RECURSIVE XorBits(_, _, _)
XorBits(a, b, n) ==
    IF n = 0 THEN 0
    ELSE (((a % 2) + (b % 2)) % 2) + 2 * XorBits(a \div 2, b \div 2, n - 1)

\* hash ^= c, for a character code c in 0..127: only the low byte changes.
Xor64(h, c) == [h EXCEPT ![1] = XorBits(h[1], c, 8)]

RECURSIVE MulColumn(_, _, _, _)
MulColumn(a, b, i, j) ==
    IF j > i THEN 0 ELSE a[j] * b[i + 1 - j] + MulColumn(a, b, i, j + 1)

RECURSIVE MulLimbs(_, _, _, _)
MulLimbs(a, b, i, carry) ==
    IF i > 8 THEN <<>>
    ELSE LET t == MulColumn(a, b, i, 1) + carry
         IN  <<t % 256>> \o MulLimbs(a, b, i + 1, t \div 256)

\* a * b modulo 2^64
Mul64(a, b) == MulLimbs(a, b, 1, 0)

RECURSIVE ModLimbs(_, _, _, _)
ModLimbs(h, i, m, r) ==
    IF i = 0 THEN r ELSE ModLimbs(h, i - 1, m, ((r * 256) + h[i]) % m)

\* h % m
Mod64(h, m) == ModLimbs(h, 8, m, 0)

\* 14695981039346656037ull = 0xCBF29CE484222325
fnv_offset_basis == <<37, 35, 34, 132, 228, 156, 242, 203>>
\* 1099511628211ul = 0x00000100000001B3
fnv_prime == <<179, 1, 0, 0, 0, 1, 0, 0>>

RECURSIVE fnv1a_loop(_, _, _)
fnv1a_loop(hash, k, i) ==
    IF i > Len(k) THEN hash
    ELSE fnv1a_loop(Mul64(Xor64(hash, k[i]), fnv_prime), k, i + 1)

\* The value of `hash` at line 86, tabulated once per key literal.
fnv1a == [k \in AllKeys |-> fnv1a_loop(fnv_offset_basis, k, 1)]

\* hash % m_cap at line 86, tabulated once per capacity and key literal.
fnv1a_mod == [c \in Capacities |-> [k \in AllKeys |-> Mod64(fnv1a[k], c)]]

fnv1a_hash(k) == fnv1a_mod[m_cap][k]

\* std::strcmp: 0 when equal, else the sign of the first difference.
RECURSIVE strcmp_from(_, _, _)
strcmp_from(a, b, i) ==
    IF i > Len(a) /\ i > Len(b) THEN 0
    ELSE IF i > Len(a) THEN -1
    ELSE IF i > Len(b) THEN 1
    ELSE IF a[i] < b[i] THEN -1
    ELSE IF a[i] > b[i] THEN 1
    ELSE strcmp_from(a, b, i + 1)

strcmp(a, b) == strcmp_from(a, b, 1)

\* ------------------------------------------------------------- Entry
Entry(k, v) == [key |-> k, val |-> v, next |-> nullptr]

Slots == 0..(m_cap - 1)

\* ------------------------------------------------------------- get
get_NoCompare(tbl, k) ==
    LET p == tbl[fnv1a_hash(k)]
    IN  IF p = nullptr THEN nullopt ELSE <<p[1].val>>

RECURSIVE get_probe_from(_, _, _, _)
get_probe_from(tbl, k, idx, n) ==
    IF n = 0 \/ tbl[idx] = nullptr THEN nullopt
    ELSE IF strcmp(tbl[idx][1].key, k) = 0 THEN <<tbl[idx][1].val>>
    ELSE get_probe_from(tbl, k, (idx + 1) % m_cap, n - 1)

get_Probe(tbl, k) == get_probe_from(tbl, k, fnv1a_hash(k), m_cap)

RECURSIVE chain_find(_, _)
chain_find(cur_entry, k) ==
    IF cur_entry = nullptr THEN nullopt
    ELSE IF strcmp(cur_entry[1].key, k) = 0 THEN <<cur_entry[1].val>>
    ELSE chain_find(cur_entry[1].next, k)

get(tbl, k) == chain_find(tbl[fnv1a_hash(k)], k)

has_value(r) == r # nullopt

contains(tbl, k) == has_value(get(tbl, k))

\* ------------------------------------------------------------- size, is_empty, clear
RECURSIVE chain_len(_)
chain_len(cur) == IF cur = nullptr THEN 0 ELSE 1 + chain_len(cur[1].next)

RECURSIVE size_from(_, _)
size_from(tbl, i) ==
    IF i >= m_cap THEN 0 ELSE chain_len(tbl[i]) + size_from(tbl, i + 1)

size_SkipFirst(tbl) == size_from(tbl, 1)

size(tbl) == size_from(tbl, 0)

is_empty_FirstSlotOnly(tbl) == tbl[0] = nullptr

is_empty(tbl) == \A i \in Slots : tbl[i] = nullptr

capacity == m_cap

clear_SkipFirst(tbl) == [i \in Slots |-> IF i = 0 THEN tbl[i] ELSE nullptr]

clear_SkipLast(tbl) == [i \in Slots |-> IF i = m_cap - 1 THEN tbl[i] ELSE nullptr]

clear(tbl) == [i \in Slots |-> nullptr]

\* ------------------------------------------------------------- linear_probe, insert
step == 1

\* The loop of linear_probe goes round once more: the slot is occupied by another key.
linear_probe_continue_NoMatch(tbl, idx, k) == tbl[idx] # nullptr

linear_probe_continue_NoWrap(tbl, idx, k) ==
    /\ tbl[idx] # nullptr
    /\ strcmp(tbl[idx][1].key, k) # 0
    /\ idx + step < m_cap

linear_probe_continue(tbl, idx, k) ==
    /\ tbl[idx] # nullptr
    /\ strcmp(tbl[idx][1].key, k) # 0

linear_probe_next_NoModulo(idx) == idx + step

linear_probe_next_Step2(idx) == (idx + 2) % m_cap

linear_probe_next(idx) == (idx + step) % m_cap

insert_store_Chain(tbl, idx, k, v) ==
    IF tbl[idx] = nullptr
    THEN [tbl EXCEPT ![idx] = <<Entry(k, v)>>]
    ELSE [tbl EXCEPT ![idx] = <<[key |-> k, val |-> v, next |-> tbl[idx]]>>]

insert_store_AtHome(tbl, idx, k, v) == [tbl EXCEPT ![fnv1a_hash(k)] = <<Entry(k, v)>>]

insert_store_NoUpdate(tbl, idx, k, v) ==
    IF tbl[idx] = nullptr THEN [tbl EXCEPT ![idx] = <<Entry(k, v)>>] ELSE tbl

\* Lines 39-42 of insert, at the index linear_probe returned.
insert_store(tbl, idx, k, v) ==
    IF tbl[idx] = nullptr
    THEN [tbl EXCEPT ![idx] = <<Entry(k, v)>>]
    ELSE [tbl EXCEPT ![idx] = <<[tbl[idx][1] EXCEPT !.val = v]>>]

\* ------------------------------------------------------------- history helpers
NoKey == <<>>

\* The calls main makes on ht, in order: lines 139-155.
puppy == KeyList[3]
kitty == KeyList[4]
horsie == KeyList[5]
wolfie == KeyList[6]
keyval_pairs == << <<puppy, 5>>, <<kitty, 8>>, <<horsie, 12>> >>
MainCall(op, k, v) == [op |-> op, key |-> k, val |-> v]
MainCalls ==
    [i \in 1..Len(keyval_pairs) |-> MainCall("insert", keyval_pairs[i][1], keyval_pairs[i][2])]
    \o << MainCall("insert", puppy, 7),
          MainCall("size", NoKey, 0), MainCall("capacity", NoKey, 0), MainCall("is_empty", NoKey, 0) >>
    \o [i \in 1..Len(keyval_pairs) |-> MainCall("get", keyval_pairs[i][1], 0)]
    \o << MainCall("get", wolfie, 0),
          MainCall("clear", NoKey, 0),
          MainCall("size", NoKey, 0), MainCall("capacity", NoKey, 0), MainCall("is_empty", NoKey, 0),
          MainCall("get", puppy, 0) >>

\* history: n when the calls since construction are exactly the first n calls of main, else -1.
MainProgress(n, op, k, v) ==
    IF n >= 0 /\ n < Len(MainCalls) /\ MainCalls[n + 1] = MainCall(op, k, v) THEN n + 1 ELSE -1

Call(op, k, v, ret) ==
    [op |-> op, key |-> k, val |-> v, ret |-> ret, pre |-> size(m_table),
     main |-> MainProgress(last.main, op, k, v)]

InsertedKeys == {k \in DOMAIN inserted : inserted[k] # nullopt}

\* The number of entries of tbl, over all slots and their chains, whose key is k.
RECURSIVE chain_count(_, _)
chain_count(cur, k) ==
    IF cur = nullptr THEN 0
    ELSE (IF cur[1].key = k THEN 1 ELSE 0) + chain_count(cur[1].next, k)

RECURSIVE key_count_from(_, _, _)
key_count_from(tbl, k, i) ==
    IF i >= m_cap THEN 0 ELSE chain_count(tbl[i], k) + key_count_from(tbl, k, i + 1)

KeyCount(tbl, k) == key_count_from(tbl, k, 0)
Stored(tbl, k) == KeyCount(tbl, k) > 0
Full(tbl) == \A i \in Slots : tbl[i] # nullptr

\* ------------------------------------------------------------- the state machine
Init ==
    /\ m_cap \in 1..MaxCap
    /\ m_table = [i \in 0..(m_cap - 1) |-> nullptr]
    /\ pc = "idle"
    /\ key = NoKey
    /\ val = 0
    /\ index = 0
    /\ probes = 0
    /\ last = [op |-> "construct", key |-> NoKey, val |-> 0, ret |-> <<>>, pre |-> 0, main |-> 0]
    /\ inserted = [k \in Keys |-> nullopt]
    /\ removed = FALSE

\* insert(key, val) is called: lines 35-38, up to the first test of linear_probe's loop.
Insert(k, v) ==
    /\ pc = "idle"
    /\ pc' = "probe"
    /\ key' = k
    /\ val' = v
    /\ index' = fnv1a_hash(k)
    /\ probes' = 0
    /\ UNCHANGED <<m_cap, m_table, last, inserted, removed>>

\* One round of linear_probe's loop: lines 100-103.
LinearProbe ==
    /\ pc = "probe"
    /\ linear_probe_continue(m_table, index, key)
    /\ index' = linear_probe_next(index)
    /\ probes' = IF probes < m_cap + 1 THEN probes + 1 ELSE probes
    /\ UNCHANGED <<m_cap, m_table, pc, key, val, last, inserted, removed>>

\* linear_probe returns (line 102 or 105) and insert stores or updates: lines 39-43.
InsertStore ==
    /\ pc = "probe"
    /\ ~linear_probe_continue(m_table, index, key)
    /\ m_table' = insert_store(m_table, index, key, val)
    /\ last' = Call("insert", key, val, <<>>)
    /\ inserted' = [inserted EXCEPT ![key] = <<val>>]
    /\ removed' = removed
    /\ pc' = "idle"
    /\ key' = NoKey
    /\ val' = 0
    /\ index' = 0
    /\ probes' = 0
    /\ UNCHANGED m_cap

Get(k) ==
    /\ pc = "idle"
    /\ last' = Call("get", k, 0, get(m_table, k))
    /\ UNCHANGED <<m_cap, m_table, pc, key, val, index, probes, inserted, removed>>

Contains(k) ==
    /\ pc = "idle"
    /\ last' = Call("contains", k, 0, <<contains(m_table, k)>>)
    /\ UNCHANGED <<m_cap, m_table, pc, key, val, index, probes, inserted, removed>>

\* remove(key): lines 45-47, a stub that returns at once.
Remove(k) ==
    /\ pc = "idle"
    /\ last' = Call("remove", k, 0, <<>>)
    /\ removed' = (removed \/ k \in InsertedKeys)
    /\ UNCHANGED <<m_cap, m_table, pc, key, val, index, probes, inserted>>

Clear ==
    /\ pc = "idle"
    /\ m_table' = clear(m_table)
    /\ last' = Call("clear", NoKey, 0, <<>>)
    /\ inserted' = [k \in DOMAIN inserted |-> nullopt]
    /\ removed' = FALSE
    /\ UNCHANGED <<m_cap, pc, key, val, index, probes>>

Size ==
    /\ pc = "idle"
    /\ last' = Call("size", NoKey, 0, <<size(m_table)>>)
    /\ UNCHANGED <<m_cap, m_table, pc, key, val, index, probes, inserted, removed>>

IsEmpty ==
    /\ pc = "idle"
    /\ last' = Call("is_empty", NoKey, 0, <<is_empty(m_table)>>)
    /\ UNCHANGED <<m_cap, m_table, pc, key, val, index, probes, inserted, removed>>

Capacity ==
    /\ pc = "idle"
    /\ last' = Call("capacity", NoKey, 0, <<capacity>>)
    /\ UNCHANGED <<m_cap, m_table, pc, key, val, index, probes, inserted, removed>>

Next ==
    \/ \E k \in Keys, v \in Vals : Insert(k, v)
    \/ LinearProbe
    \/ InsertStore
    \/ \E k \in Keys : Get(k)
    \/ \E k \in Keys : Contains(k)
    \/ \E k \in Keys : Remove(k)
    \/ Clear
    \/ Size
    \/ IsEmpty
    \/ Capacity

Spec == Init /\ [][Next]_vars

\* The table main constructs (line 136), under the calls main makes, in any order and
\* any number of times, and the same calls for "b", which shares the home index
\* of "puppy" at this capacity.
MainKeys == {KeyList[2], puppy, kitty, horsie, wolfie}
MainInserts ==
    {keyval_pairs[i] : i \in 1..Len(keyval_pairs)} \cup {<<puppy, 7>>, <<KeyList[2], 5>>}

InitMain ==
    /\ m_cap = hashtable_capacity
    /\ m_table = [i \in 0..(m_cap - 1) |-> nullptr]
    /\ pc = "idle"
    /\ key = NoKey
    /\ val = 0
    /\ index = 0
    /\ probes = 0
    /\ last = [op |-> "construct", key |-> NoKey, val |-> 0, ret |-> <<>>, pre |-> 0, main |-> 0]
    /\ inserted = [k \in MainKeys |-> nullopt]
    /\ removed = FALSE

NextMain ==
    \/ \E kv \in MainInserts : Insert(kv[1], kv[2])
    \/ LinearProbe
    \/ InsertStore
    \/ \E k \in MainKeys : Get(k)
    \/ \E k \in MainKeys : Contains(k)
    \/ \E k \in MainKeys : Remove(k)
    \/ Clear
    \/ Size
    \/ IsEmpty
    \/ Capacity

SpecMain == InitMain /\ [][NextMain]_vars

\* ------------------------------------------------------------- history predicates
\* The pair last inserted for k sits, unaltered, in some slot.
StoredPair(tbl, k) == \E i \in Slots : tbl[i] = <<Entry(k, inserted[k][1])>>

\* insert has just returned.
InsertReturned == pc = "idle" /\ last.op = "insert"

\* ------------------------------------------------------------- claims
\* C1: in every state where insert(k, v) has just returned, get(k) returns v,
\* also when k's home slot is occupied by a different key.
C1_InsertThenGet ==
    InsertReturned => get(m_table, last.key) = <<last.val>>

\* C2: distinct inserted keys that hash to the same home index are all still
\* returned by get with the value they were inserted with.
C2_CollidingKeysRetrievable ==
    \A k1, k2 \in InsertedKeys :
        (k1 # k2 /\ fnv1a_hash(k1) = fnv1a_hash(k2)) => get(m_table, k1) = inserted[k1]

\* C3: one insert call steps past at most `capacity` slots before it ends
\* (with a table-full failure when every slot holds another key).
C3_ProbeBoundedByCapacity ==
    pc = "probe" => probes <= m_cap

\* C4: re-inserting a key the table already holds leaves size() as it was and
\* makes get(k) return the new value.
C4_ReinsertUpdatesInPlace ==
    [][(InsertStore /\ Stored(m_table, key))
        => (size(m_table') = size(m_table) /\ get(m_table', key) = <<val>>)]_vars

\* C5: with only insert, get, contains (and the size queries) called since
\* construction or the last clear, size() is the number of distinct keys inserted.
C5_SizeCountsDistinctKeys ==
    ~removed => size(m_table) = Cardinality(InsertedKeys)

C5_Witness ==
    /\ pc = "idle"
    /\ ~removed
    /\ last.op = "contains"
    /\ size(m_table) >= 2
    /\ \E k \in InsertedKeys : fnv1a_hash(k) # CHOOSE i \in Slots : m_table[i] = <<Entry(k, inserted[k][1])>>

\* C6: an insert of a key the table does not hold finds a slot within fewer than
\* `capacity` steps while a slot is free and then stores one new entry (size()
\* grows by one, up to capacity); an insert attempted on a full table for a
\* further key changes no slot; every pair inserted stays stored as it was.
C6_FillThenNothingLost ==
    /\ []((pc = "probe" /\ ~Full(m_table)) => probes < m_cap)
    /\ [](\A k \in InsertedKeys : StoredPair(m_table, k))
    /\ [](size(m_table) <= m_cap)
    /\ [][(InsertStore /\ ~Stored(m_table, key))
            => size(m_table') = size(m_table) + 1]_vars
    /\ [][(pc = "probe" /\ Full(m_table) /\ ~Stored(m_table, key))
            => m_table' = m_table]_vars

C6_Witness ==
    /\ pc = "probe"
    /\ m_cap >= 2
    /\ size(m_table) = m_cap
    /\ ~Stored(m_table, key)
    /\ probes > m_cap
    /\ \A k \in InsertedKeys : StoredPair(m_table, k)

\* C7: when clear() has just returned every slot is empty, is_empty() is true,
\* size() is 0 and get(k) is not-found for every key.
C7_ClearEmptiesTable ==
    (pc = "idle" /\ last.op = "clear") =>
        /\ \A i \in Slots : m_table[i] = nullptr
        /\ is_empty(m_table)
        /\ size(m_table) = 0
        /\ \A k \in Keys : get(m_table, k) = nullopt

C7_Witness ==
    /\ pc = "idle"
    /\ last.op = "clear"
    /\ last.pre >= 2
    /\ is_empty(m_table)

\* C8: remove(k) of a stored key makes get(k) not-found, contains(k) false and
\* size() one less; remove(k) of an absent key leaves the table unchanged.
C8_RemoveDeletes ==
    [][\A k \in Keys : Remove(k) =>
          IF Stored(m_table, k)
          THEN /\ get(m_table', k) = nullopt
               /\ ~contains(m_table', k)
               /\ size(m_table') = size(m_table) - 1
          ELSE m_table' = m_table]_vars

\* C9: for every key not inserted since construction or the last clear, get is
\* not-found and contains is false, whatever occupies its home slot, and a
\* get or contains call changes no slot.
C9_AbsentKeyNotFound ==
    /\ [](\A k \in Keys \ InsertedKeys :
            get(m_table, k) = nullopt /\ ~contains(m_table, k))
    /\ []((last.op = "get" /\ last.key \notin InsertedKeys) => last.ret = nullopt)
    /\ []((last.op = "contains" /\ last.key \notin InsertedKeys) => last.ret = <<FALSE>>)
    /\ [][(last' # last /\ last'.op \in {"get", "contains"}) => m_table' = m_table]_vars

C9_Witness ==
    /\ pc = "idle"
    /\ last.op = "get"
    /\ last.key \notin InsertedKeys
    /\ m_table[fnv1a_hash(last.key)] # nullptr
    /\ last.ret = nullopt

\* C10: no two slots (or chain nodes) hold equal keys.
C10_OneEntryPerKey ==
    \A k \in Keys : KeyCount(m_table, k) <= 1

C10_Witness ==
    /\ InsertReturned
    /\ last.pre = size(m_table)
    /\ size(m_table) >= 2
    /\ fnv1a_hash(last.key) # CHOOSE i \in Slots : m_table[i] # nullptr /\ m_table[i][1].key = last.key

\* ------------------------------------------------------------- slot predicates
\* The slots that hold an entry.
OccupiedSlots(tbl) == {i \in Slots : tbl[i] # nullptr}

\* The slot whose entry has key k, for a key the table holds.
SlotOf(tbl, k) == CHOOSE i \in Slots : tbl[i] # nullptr /\ tbl[i][1].key = k

\* k is held in a slot other than its home slot.
Displaced(tbl, k) ==
    \E i \in Slots : i # fnv1a_hash(k) /\ tbl[i] # nullptr /\ tbl[i][1].key = k

\* k is held in a slot before its home slot: its probe sequence wrapped round.
Wrapped(tbl, k) ==
    \E i \in Slots : i < fnv1a_hash(k) /\ tbl[i] # nullptr /\ tbl[i][1].key = k

\* C11: m_cap never changes, capacity() returns it, the slot array has exactly
\* the slots 0..m_cap-1, and the home index of every key and the index
\* linear_probe and insert work at are among them.
C11_CapacityFixedIndicesInRange ==
    /\ [][m_cap' = m_cap]_vars
    /\ [](DOMAIN m_table = 0..(m_cap - 1))
    /\ [](index \in 0..(m_cap - 1))
    /\ [](\A k \in Keys : fnv1a_hash(k) \in 0..(m_cap - 1))
    /\ [](last.op = "capacity" => last.ret = <<m_cap>>)

C11_Witness ==
    /\ pc = "idle"
    /\ last.op = "capacity"
    /\ last.ret = <<m_cap>>
    /\ Full(m_table)
    /\ \E k \in Keys : Wrapped(m_table, k)

\* C12: is_empty() is true exactly when no slot holds an entry, and exactly
\* when size() is 0.
C12_IsEmptyIffSizeZero ==
    /\ is_empty(m_table) <=> (OccupiedSlots(m_table) = {})
    /\ is_empty(m_table) <=> (size(m_table) = 0)
    /\ (pc = "idle" /\ last.op = "is_empty") => last.ret = <<size(m_table) = 0>>

C12_Witness ==
    /\ pc = "idle"
    /\ last.op = "is_empty"
    /\ last.ret = <<FALSE>>
    /\ m_table[0] = nullptr
    /\ size(m_table) >= 1

\* C13: main's calls on the table of capacity 40: after the four inserts
\* size() is 3, get gives puppy 7, kitty 8, horsie 12 and wolfie not-found, each
\* key sitting at its FNV-1a home index; after clear() size() is 0 and
\* get("puppy") is not-found.
C13_DriverScenario ==
    /\ (last.main \in 4..11) =>
          /\ size(m_table) = 3
          /\ get(m_table, puppy) = <<7>>
          /\ get(m_table, kitty) = <<8>>
          /\ get(m_table, horsie) = <<12>>
          /\ get(m_table, wolfie) = nullopt
          /\ m_table[29] = <<Entry(puppy, 7)>>
          /\ m_table[32] = <<Entry(kitty, 8)>>
          /\ m_table[13] = <<Entry(horsie, 12)>>
    /\ (last.main = 5) => last.ret = <<3>>
    /\ (last.main = 6) => last.ret = <<40>>
    /\ (last.main = 7) => last.ret = <<FALSE>>
    /\ (last.main = 8) => last.ret = <<7>>
    /\ (last.main = 9) => last.ret = <<8>>
    /\ (last.main = 10) => last.ret = <<12>>
    /\ (last.main = 11) => last.ret = nullopt
    /\ (last.main \in 12..16) =>
          /\ size(m_table) = 0
          /\ get(m_table, puppy) = nullopt
    /\ (last.main = 13) => last.ret = <<0>>
    /\ (last.main = 15) => last.ret = <<TRUE>>
    /\ (last.main = 16) => last.ret = nullopt

C13_Witness ==
    /\ pc = "idle"
    /\ m_cap = 40
    /\ last.main = 16
    /\ last.op = "get"
    /\ last.key = puppy

\* The number of forward steps, modulo the capacity, from slot h to slot i.
ProbeDistance(h, i) == ((i - h) + m_cap) % m_cap

\* C14: get follows insert's probe order, so that for every key stored at a
\* slot, get of that key returns the value stored there.
C14_GetFollowsProbeOrder ==
    \A i \in Slots :
        m_table[i] # nullptr => get(m_table, m_table[i][1].key) = <<m_table[i][1].val>>

\* C15: a returning insert(k, v) acts on the first slot, in forward order from
\* k's home index with step 1 modulo the capacity, that is empty or holds k:
\* every slot before it holds another key; if the table does not hold k the slot
\* is empty and receives the new entry, otherwise it holds k and only its value
\* is overwritten.
C15_InsertFirstFit ==
    [][InsertStore =>
        LET h == fnv1a_hash(key)
            d == ProbeDistance(h, index)
        IN  /\ probes = d
            /\ \A j \in 0..(d - 1) :
                  /\ m_table[(h + j) % m_cap] # nullptr
                  /\ m_table[(h + j) % m_cap][1].key # key
            /\ m_table' = [m_table EXCEPT ![index] = <<Entry(key, val)>>]
            /\ IF Stored(m_table, key)
               THEN /\ m_table[index] # nullptr
                    /\ m_table[index][1].key = key
                    /\ size(m_table') = size(m_table)
               ELSE /\ m_table[index] = nullptr
                    /\ size(m_table') = size(m_table) + 1]_vars

C15_Witness ==
    /\ InsertReturned
    /\ last.pre < size(m_table)
    /\ Wrapped(m_table, last.key)
    /\ \E k \in Keys : k # last.key /\ Displaced(m_table, k)

\* C16: the next link of every stored entry is null, so size() is the number
\* of non-empty slots and is at most capacity().
C16_OneEntryPerSlot ==
    /\ \A i \in Slots :
          m_table[i] # nullptr => (Len(m_table[i]) = 1 /\ m_table[i][1].next = nullptr)
    /\ size(m_table) = Cardinality(OccupiedSlots(m_table))
    /\ size(m_table) <= capacity

C16_Witness ==
    /\ InsertReturned
    /\ last.pre = size(m_table)
    /\ size(m_table) = capacity
    /\ capacity >= 2

C18_InsertChangesOneSlot ==
    /\ [][InsertStore =>
            /\ \A i \in Slots \ {index} : m_table'[i] = m_table[i]
            /\ \A i \in Slots :
                  m_table[i] # nullptr =>
                      (m_table'[i] # nullptr /\ m_table'[i][1].key = m_table[i][1].key)
            /\ \A k \in Keys :
                  Stored(m_table, k) =>
                      (Stored(m_table', k) /\ SlotOf(m_table', k) = SlotOf(m_table, k))]_vars
    /\ [][\A i \in Slots :
            (m_table[i] # nullptr /\ m_table'[i] # nullptr)
                => m_table'[i][1].key = m_table[i][1].key]_vars

C18_Witness ==
    /\ InsertReturned
    /\ last.pre >= 1
    /\ last.pre < size(m_table)
    /\ Displaced(m_table, last.key)

\* C19: every slot on the forward path from a stored key's home index to the
\* slot that holds it is occupied, and a step that empties a slot is a clear,
\* which empties them all.
C19_NoHoleBeforeStoredKey ==
    /\ [](\A i \in Slots :
            m_table[i] # nullptr =>
                LET h == fnv1a_hash(m_table[i][1].key)
                IN  \A j \in 0..ProbeDistance(h, i) : m_table[(h + j) % m_cap] # nullptr)
    /\ [][(\E i \in Slots : m_table[i] # nullptr /\ m_table'[i] = nullptr)
            => (last'.op = "clear" /\ \A i \in Slots : m_table'[i] = nullptr)]_vars

C19_Witness ==
    /\ pc = "idle"
    /\ last.op = "remove"
    /\ removed
    /\ Wrapped(m_table, last.key)
====
